---------------------------- MODULE Spec2Model ----------------------------
(***************************************************************************)
(* A model of picamera-webthing.py: the camera poller thread               *)
(* (camera_loop), the sensor poller thread (sensor_loop) and the serving   *)
(* thread (the tornado IOLoop, which runs the callbacks the pollers hand   *)
(* over with add_callback and the property writes of remote clients).      *)
(* The main thread is modelled from camera_setup() to the end of the       *)
(* process: it constructs the thing, becomes the serving thread in         *)
(* start(), and runs stop() and cleanup() when it is interrupted.          *)
(*                                                                         *)
(* Collaborators outside the repository are modelled by what the code      *)
(* relies on:                                                              *)
(*   - picamera.PiCamera: a settings store; every access may raise.        *)
(*   - threading.Lock: one holder at a time.                               *)
(*   - tornado IOLoop.add_callback: appends to a FIFO the loop drains.     *)
(*   - webthing.Value: last_value, set() and notify_of_external_update().  *)
(*     set() calls the forwarder, discards what it returns, and then       *)
(*     calls notify_of_external_update(); the latter stores and emits      *)
(*     'update' only when the value is not None and differs from           *)
(*     last_value.                                                         *)
(***************************************************************************)
EXTENDS Integers, Sequences, FiniteSets, TLC

\* ------------------------------------------------------------ bounds
\* add_callback calls (of both pollers together) that are explored.
MaxCallbacks == 3
\* Remote property writes that are explored.
MaxWrites == 1

\* ------------------------------------------------------------ values
\* Python values are tagged tuples, so that a str and a number that print
\* alike stay different values (2 != "2.0" in Python).
None == <<"None">>

\* A str "<w>x<h>", the form of the resolution choices and of the string
\* get_resolution() builds.
ResStr(w, h) == <<"str", w, "x", h>>

\* A str "<n>.0": the form of the framerate choices and of the string
\* get_framerate() builds.  Num(n) is the number n itself.
FloatStr(n) == <<"str", n, ".0">>
Num(n) == <<"num", n>>

\* A plain str.
Str(s) == <<"str", s>>

\* The 'choices' of the resolution property (two of the seven).
ResolutionChoices == {ResStr(320, 240), ResStr(640, 480)}

\* The 'choices' of the framerate property ("0.0" and "1.0" of the sixteen).
FramerateChoices == {FloatStr(0), FloatStr(1)}

\* picamera.PiCamera.EXPOSURE_MODES (two of them).
EXPOSURE_MODES == {Str("auto"), Str("night")}

\* The merged configuration's camera section (anyconfig.load).
ConfResolutions == {ResStr(320, 240)}
ConfFramerates == {Num(1)}
ConfExposureModes == {Str("auto")}

\* The settings __init__ reads from the configuration and no method assigns
\* afterwards.
ConfFixed ==
    {[use_video_port |-> TRUE, iso |-> Num(0), rotation |-> Num(0),
      shutter_speed |-> Num(0), sensor_mode |-> Num(0),
      si7021_enabled |-> TRUE, sensors_update_interval |-> Num(5)]}

\* The framerate camera_setup() runs the camera at while it warms up: 30.0.
WarmupFramerate == <<"float", 30>>

\* The frame the camera delivers to the k-th capture() that returns: every
\* capture yields another JPEG.
Frame(k) == <<"jpeg", k>>

\* 16-bit readings the si7021 can return (data0 * 256 + data1): 0x2000.
RawReadings == {8192}

Props == {"resolution", "framerate", "exposureMode", "stillImage",
          "temperature", "humidity"}

\* The properties whose Value has a forwarder (a setter), with their choices.
Writable == {"resolution", "framerate", "exposureMode"}

Choices(p) ==
    CASE p = "resolution" -> ResolutionChoices
      [] p = "framerate" -> FramerateChoices
      [] p = "exposureMode" -> EXPOSURE_MODES

\* picamera's parse of a resolution given as "<w>x<h>": the (width, height)
\* pair the handle stores.
to_resolution(s) == <<s[2], s[4]>>

\* picamera's conversion of a framerate given as a number or as a str.
to_fraction(f) == f[2]

\* float(x) of a number or of a str "<n>.0".
float(x) == x[2]

\* base64.b64encode(frame).decode('utf-8')
b64encode(frame) == <<"str", "b64", frame>>

\* ((data0 * 256 + data1) * 125 / 65536.0) - 6, in units of 1/65536 %.
HumidityOf(raw) == <<"float", raw * 125 - 6 * 65536>>

\* (((data0 * 256 + data1) * 175.72 / 65536.0) - 46.85) * 1.8 + 32, which is
\* raw * 316.296 / 65536 - 52.33, in units of 1/8192000 degree.
TemperatureOf(raw) == <<"float", raw * 39537 - 52330 * 8192>>

\* ------------------------------------------------------------ state
VARIABLES
    camera,            \* the PiCamera handle's settings
    camera_lock,       \* holder of self.camera_lock, or "free"
    resolution,        \* self.resolution  (cached configuration)
    framerate,         \* self.framerate
    exposure_mode,     \* self.exposure_mode
    fixed,             \* self.use_video_port, self.iso, self.rotation, ...
    last_value,        \* Value.last_value of the six Value objects
    callbacks,         \* the IOLoop's queue of add_callback calls
    cam_pc,            \* camera thread: position in camera_loop
    cam_local,         \* camera thread: the local image / resolution / ...
    sensor_pc,         \* sensor thread: position in sensor_loop
    temperature,       \* sensor thread: local `temperature`
    humidity,          \* sensor thread: local `humidity`
    srv_pc,            \* serving thread: position
    srv_req,           \* serving thread: the write being applied, <<prop, value>>
    writes,            \* remote writes begun
    enq,               \* per property: callbacks handed to add_callback so far
    dlv,               \* per property: callbacks the IOLoop has run so far
    emitted,           \* 'update' events the last notify_of_external_update emitted
    lastWrite,         \* the last completed remote write: <<prop, value, result>>
    captured           \* captures that returned a frame so far

confvars == <<resolution, framerate, exposure_mode, fixed>>
lockvars == <<camera_lock>>
camvars == <<cam_pc, cam_local, captured>>
sensorvars == <<sensor_pc, temperature, humidity>>
srvvars == <<srv_pc, srv_req, writes, lastWrite>>
valuevars == <<last_value, emitted, dlv>>
queuevars == <<callbacks, enq>>

vars == <<camera, lockvars, confvars, camvars, sensorvars, srvvars, valuevars,
          queuevars>>

NoWrite == <<"none", None, FALSE>>

\* The state once PiCameraWebThing() is constructed: the configuration is
\* loaded, the Values hold the configured settings, the camera is configured
\* and warmed up, both poller threads are started.
Init ==
    /\ resolution \in ConfResolutions
    /\ framerate \in ConfFramerates
    /\ exposure_mode \in ConfExposureModes
    /\ fixed \in ConfFixed
    /\ camera = [resolution |-> to_resolution(resolution),
                 rotation |-> fixed.rotation,
                 iso |-> fixed.iso,
                 framerate |-> to_fraction(framerate),
                 shutter_speed |-> fixed.shutter_speed,
                 sensor_mode |-> fixed.sensor_mode,
                 exposure_mode |-> exposure_mode,
                 preview |-> TRUE,
                 closed |-> FALSE]
    /\ camera_lock = "free"
    /\ last_value = [p \in Props |->
                        CASE p = "resolution" -> resolution
                          [] p = "framerate" -> framerate
                          [] p = "exposureMode" -> exposure_mode
                          [] p = "stillImage" -> Str("")
                          [] OTHER -> <<"float", 0>>]
    /\ callbacks = <<>>
    /\ cam_pc = "get_still_image"
    /\ cam_local = None
    /\ sensor_pc = "read_humidity"
    /\ temperature = None
    /\ humidity = None
    /\ srv_pc = "idle"
    /\ srv_req = <<>>
    /\ writes = 0
    /\ enq = [p \in Props |-> 0]
    /\ dlv = [p \in Props |-> 0]
    /\ emitted = 0
    /\ lastWrite = NoWrite
    /\ captured = 0

\* ------------------------------------------------------------ camera_lock
\* A variant of acquire that does not wait for the lock (the `with` left out).
acquire_without_waiting(t) ==
    camera_lock' = t

\* `with self.camera_lock:` entered by thread t: blocks until the lock is free.
acquire(t) ==
    /\ camera_lock = "free"
    /\ camera_lock' = t

\* Leaving the `with` block, by return or by exception.
release(t) ==
    camera_lock' = "free"

\* The threads that are executing an operation on the PiCamera handle.
InCamera ==
    (IF cam_pc \in {"capture", "read_resolution", "read_framerate",
                    "read_exposure_mode"} THEN {"camera_thread"} ELSE {})
    \cup (IF srv_pc = "set" THEN {"serving"} ELSE {})

\* ------------------------------------------------------------ IOLoop
\* The add_callback calls made so far.
RECURSIVE Sum(_, _)
Sum(f, S) == IF S = {} THEN 0
             ELSE LET x == CHOOSE y \in S : TRUE IN f[x] + Sum(f, S \ {x})
Handed == Sum(enq, Props)

\* A variant of add_callback that schedules the callback ahead of the queued
\* ones.
add_callback_front(p, v) ==
    /\ Handed < MaxCallbacks
    /\ callbacks' = <<[prop |-> p, value |-> v, seq |-> enq[p] + 1]>> \o callbacks
    /\ enq' = [enq EXCEPT ![p] = @ + 1]

\* A variant of add_callback that keeps only the latest queued update of a
\* property.
add_callback_coalescing(p, v) ==
    /\ Handed < MaxCallbacks
    /\ callbacks' = Append(SelectSeq(callbacks, LAMBDA it : it.prop # p),
                           [prop |-> p, value |-> v, seq |-> enq[p] + 1])
    /\ enq' = [enq EXCEPT ![p] = @ + 1]

\* self.ioloop.add_callback(value.notify_of_external_update, v)
add_callback(p, v) ==
    /\ Handed < MaxCallbacks
    /\ callbacks' = Append(callbacks, [prop |-> p, value |-> v, seq |-> enq[p] + 1])
    /\ enq' = [enq EXCEPT ![p] = @ + 1]

\* The callback the IOLoop runs next.
next_callback == Head(callbacks)
rest_callbacks == Tail(callbacks)

\* ------------------------------------------------------------ webthing.Value
\* A variant of notify_of_external_update that emits 'update' on every call.
notify_always_emits(p, v) ==
    /\ last_value' = IF v # None THEN [last_value EXCEPT ![p] = v] ELSE last_value
    /\ emitted' = IF v # None THEN 1 ELSE 0

\* Value.notify_of_external_update(v) on the Value of property p.
notify_of_external_update(p, v) ==
    LET changed == v # None /\ v # last_value[p] IN
    /\ last_value' = IF changed THEN [last_value EXCEPT ![p] = v] ELSE last_value
    /\ emitted' = IF changed THEN 1 ELSE 0

\* ------------------------------------------------------------ camera thread
\* get_still_image(): `with self.camera_lock:`
get_still_image ==
    /\ cam_pc = "get_still_image"
    /\ acquire("camera_thread")
    /\ cam_pc' = "capture"
    /\ UNCHANGED <<camera, confvars, cam_local, captured, sensorvars,
                   srvvars, valuevars, queuevars>>

\* self.camera.capture(...) returns; the frame is base64-encoded and returned.
capture_ok ==
    /\ cam_pc = "capture"
    /\ cam_local' = b64encode(Frame(captured + 1))
    /\ release("camera_thread")
    /\ captured' = captured + 1
    /\ cam_pc' = "add_image"
    /\ UNCHANGED <<camera, confvars, sensorvars, srvvars, valuevars,
                   queuevars>>

\* A variant of capture_raise for a camera_loop with one `try` around the whole
\* body: the exception ends the iteration.
capture_raise_ends_iteration ==
    /\ cam_pc = "capture"
    /\ release("camera_thread")
    /\ cam_local' = None
    /\ cam_pc' = "wait_interval"
    /\ UNCHANGED <<camera, confvars, captured, sensorvars, srvvars,
                   valuevars, queuevars>>

\* self.camera.capture(...) raises: the lock is released by the `with`, the
\* exception reaches camera_loop's first `except`.
capture_raise ==
    /\ cam_pc = "capture"
    /\ release("camera_thread")
    /\ cam_local' = None
    /\ cam_pc' = "except_image"
    /\ UNCHANGED <<camera, confvars, captured, sensorvars, srvvars,
                   valuevars, queuevars>>

\* An `except Exception` block of camera_loop: logger.exception(...), and the
\* loop body goes on after the `try` statement.
log_exception(at, to) ==
    /\ cam_pc = at
    /\ cam_pc' = to
    /\ UNCHANGED <<camera, lockvars, confvars, cam_local, captured, sensorvars,
                   srvvars, valuevars, queuevars>>

except_image == log_exception("except_image", "get_resolution")

\* A variant of add_image in which the camera thread calls
\* notify_of_external_update itself.
add_image_direct ==
    /\ cam_pc = "add_image"
    /\ IF cam_local # None
       THEN notify_of_external_update("stillImage", cam_local)
       ELSE UNCHANGED <<last_value, emitted>>
    /\ cam_local' = None
    /\ cam_pc' = "get_resolution"
    /\ UNCHANGED <<camera, lockvars, confvars, captured, sensorvars,
                   srvvars, dlv, queuevars>>

\* camera_loop: the image is handed to the IOLoop.
add_image ==
    /\ cam_pc = "add_image"
    /\ IF cam_local # None
       THEN add_callback("stillImage", cam_local)
       ELSE UNCHANGED queuevars
    /\ cam_local' = None
    /\ cam_pc' = "get_resolution"
    /\ UNCHANGED <<camera, lockvars, confvars, captured, sensorvars,
                   srvvars, valuevars>>

\* A settings getter entering its `with self.camera_lock:`.
getter_lock(at, to) ==
    /\ cam_pc = at
    /\ acquire("camera_thread")
    /\ cam_pc' = to
    /\ UNCHANGED <<camera, confvars, cam_local, captured, sensorvars,
                   srvvars, valuevars, queuevars>>

\* A settings getter reading the handle and returning v.
getter_ok(at, v, to) ==
    /\ cam_pc = at
    /\ release("camera_thread")
    /\ cam_local' = v
    /\ cam_pc' = to
    /\ UNCHANGED <<camera, confvars, captured, sensorvars, srvvars,
                   valuevars, queuevars>>

\* A variant of getter_raise for a getter that takes the lock with acquire()
\* and release() calls instead of `with`: the exception skips the release.
getter_raise_keeps_lock(at, to) ==
    /\ cam_pc = at
    /\ cam_local' = None
    /\ cam_pc' = to
    /\ UNCHANGED <<camera, lockvars, confvars, captured, sensorvars, srvvars,
                   valuevars, queuevars>>

\* A settings getter whose read of the handle raises.
getter_raise(at, to) ==
    /\ cam_pc = at
    /\ release("camera_thread")
    /\ cam_local' = None
    /\ cam_pc' = to
    /\ UNCHANGED <<camera, confvars, captured, sensorvars, srvvars,
                   valuevars, queuevars>>

\* camera_loop handing a read-back setting to the IOLoop.
add_setting(at, p, to) ==
    /\ cam_pc = at
    /\ IF cam_local # None
       THEN add_callback(p, cam_local)
       ELSE UNCHANGED queuevars
    /\ cam_local' = None
    /\ cam_pc' = to
    /\ UNCHANGED <<camera, lockvars, confvars, captured, sensorvars,
                   srvvars, valuevars>>

\* "{}x{}".format(_width, _height)
format_resolution(wh) == ResStr(wh[1], wh[2])

\* "{}".format(float(self.camera.framerate))
format_framerate(fr) == FloatStr(fr)

get_resolution == getter_lock("get_resolution", "read_resolution")
get_resolution_ok ==
    getter_ok("read_resolution", format_resolution(camera.resolution), "add_resolution")
get_resolution_raise == getter_raise("read_resolution", "except_resolution")
except_resolution == log_exception("except_resolution", "get_framerate")
add_resolution == add_setting("add_resolution", "resolution", "get_framerate")

\* A variant of add_framerate that also stores the framerate read back in
\* self.framerate.
add_framerate_caching ==
    /\ cam_pc = "add_framerate"
    /\ IF cam_local # None
       THEN add_callback("framerate", cam_local)
       ELSE UNCHANGED queuevars
    /\ framerate' = IF cam_local # None THEN cam_local ELSE framerate
    /\ cam_local' = None
    /\ cam_pc' = "get_exposure_mode"
    /\ UNCHANGED <<camera, lockvars, resolution, exposure_mode, fixed, captured,
                   sensorvars, srvvars, valuevars>>

get_framerate == getter_lock("get_framerate", "read_framerate")
get_framerate_ok ==
    getter_ok("read_framerate", format_framerate(camera.framerate), "add_framerate")
get_framerate_raise == getter_raise("read_framerate", "except_framerate")
except_framerate == log_exception("except_framerate", "get_exposure_mode")
add_framerate == add_setting("add_framerate", "framerate", "get_exposure_mode")

get_exposure_mode == getter_lock("get_exposure_mode", "read_exposure_mode")
get_exposure_mode_ok ==
    getter_ok("read_exposure_mode", camera.exposure_mode, "add_exposure_mode")
get_exposure_mode_raise == getter_raise("read_exposure_mode", "except_exposure_mode")
except_exposure_mode == log_exception("except_exposure_mode", "wait_interval")
add_exposure_mode == add_setting("add_exposure_mode", "exposureMode", "wait_interval")

\* wait_interval = 1.0 / float(self.framerate) raises ZeroDivisionError.
ZeroDivision == float(framerate) = 0

\* wait_interval = 1.0 / float(self.framerate); time.sleep(wait_interval);
\* the next iteration begins.
wait_interval ==
    /\ cam_pc = "wait_interval"
    /\ ~ZeroDivision
    /\ cam_pc' = "get_still_image"
    /\ UNCHANGED <<camera, lockvars, confvars, cam_local, captured, sensorvars,
                   srvvars, valuevars, queuevars>>

\* The division raises outside every `try`: camera_loop, and with it the
\* camera thread, ends.
wait_interval_raise ==
    /\ cam_pc = "wait_interval"
    /\ ZeroDivision
    /\ cam_pc' = "terminated"
    /\ UNCHANGED <<camera, lockvars, confvars, cam_local, captured,
                   sensorvars, srvvars, valuevars, queuevars>>

\* ------------------------------------------------------------ sensor thread
\* get_si7021_values(): the humidity transaction (write 0xF5, two read_byte
\* calls) succeeds with reading raw.
read_humidity_ok ==
    /\ sensor_pc = "read_humidity"
    /\ \E raw \in RawReadings : humidity' = HumidityOf(raw)
    /\ sensor_pc' = "read_temperature"
    /\ UNCHANGED <<camera, lockvars, confvars, camvars, temperature,
                   srvvars, valuevars, queuevars>>

\* The humidity transaction raises: get_si7021_values() logs and returns
\* (None, None).
read_humidity_raise ==
    /\ sensor_pc = "read_humidity"
    /\ sensor_pc' = "add_temperature"
    /\ UNCHANGED <<camera, lockvars, confvars, camvars, temperature, humidity,
                   srvvars, valuevars, queuevars>>

\* The temperature transaction (write 0xF3, two read_byte calls) succeeds.
read_temperature_ok ==
    /\ sensor_pc = "read_temperature"
    /\ \E raw \in RawReadings : temperature' = TemperatureOf(raw)
    /\ sensor_pc' = "add_temperature"
    /\ UNCHANGED <<camera, lockvars, confvars, camvars, humidity,
                   srvvars, valuevars, queuevars>>

\* The temperature transaction raises: get_si7021_values() logs and returns
\* (None, humidity), `humidity` being assigned already.
read_temperature_raise ==
    /\ sensor_pc = "read_temperature"
    /\ sensor_pc' = "add_temperature"
    /\ UNCHANGED <<camera, lockvars, confvars, camvars, temperature, humidity,
                   srvvars, valuevars, queuevars>>

\* sensor_loop: `if ... temperature is not None: self.ioloop.add_callback(...)`
add_temperature ==
    /\ sensor_pc = "add_temperature"
    /\ IF temperature # None
       THEN add_callback("temperature", temperature)
       ELSE UNCHANGED queuevars
    /\ sensor_pc' = "add_humidity"
    /\ UNCHANGED <<camera, lockvars, confvars, camvars, temperature, humidity,
                   srvvars, valuevars>>

\* sensor_loop: `if ... humidity is not None: self.ioloop.add_callback(...)`
add_humidity ==
    /\ sensor_pc = "add_humidity"
    /\ IF humidity # None
       THEN add_callback("humidity", humidity)
       ELSE UNCHANGED queuevars
    /\ sensor_pc' = "sleep"
    /\ UNCHANGED <<camera, lockvars, confvars, camvars, temperature, humidity,
                   srvvars, valuevars>>

\* time.sleep(self.sensors_update_interval); the next iteration resets both
\* locals to None.
sensor_sleep ==
    /\ sensor_pc = "sleep"
    /\ temperature' = None
    /\ humidity' = None
    /\ sensor_pc' = "read_humidity"
    /\ UNCHANGED <<camera, lockvars, confvars, camvars, srvvars, valuevars,
                   queuevars>>

\* ------------------------------------------------------------ serving thread
\* The IOLoop runs the oldest callback: value.notify_of_external_update(v).
run_callback ==
    /\ srv_pc = "idle"
    /\ callbacks # <<>>
    /\ notify_of_external_update(next_callback.prop, next_callback.value)
    /\ dlv' = [dlv EXCEPT ![next_callback.prop] = next_callback.seq]
    /\ callbacks' = rest_callbacks
    /\ UNCHANGED <<camera, lockvars, confvars, camvars, sensorvars, srvvars, enq>>

\* A remote write of v to property p: Value.set(v) calls the forwarder, which
\* calls the setter, which enters `with self.camera_lock:`.
set_begin ==
    /\ srv_pc = "idle"
    /\ writes < MaxWrites
    /\ \E p \in Writable : \E v \in Choices(p) : srv_req' = <<p, v>>
    /\ acquire("serving")
    /\ srv_pc' = "set"
    /\ writes' = writes + 1
    /\ UNCHANGED <<camera, confvars, camvars, sensorvars, lastWrite, valuevars,
                   queuevars>>

\* set_resolution(): the assignment to the handle, then to the cached field;
\* `ok` is whether the handle accepted the assignment.
set_resolution(v, ok) ==
    IF ok
    THEN /\ camera' = [camera EXCEPT !.resolution = to_resolution(v)]
         /\ resolution' = v
         /\ UNCHANGED <<framerate, exposure_mode, fixed>>
    ELSE UNCHANGED <<camera, confvars>>

\* A variant of set_framerate that assigns the cached field before the
\* handle.
set_framerate_caches_first(v, ok) ==
    /\ framerate' = v
    /\ camera' = IF ok THEN [camera EXCEPT !.framerate = to_fraction(v)] ELSE camera
    /\ UNCHANGED <<resolution, exposure_mode, fixed>>

\* set_framerate()
set_framerate(v, ok) ==
    IF ok
    THEN /\ camera' = [camera EXCEPT !.framerate = to_fraction(v)]
         /\ framerate' = v
         /\ UNCHANGED <<resolution, exposure_mode, fixed>>
    ELSE UNCHANGED <<camera, confvars>>

\* set_exposure_mode()
set_exposure_mode(v, ok) ==
    IF ok
    THEN /\ camera' = [camera EXCEPT !.exposure_mode = v]
         /\ exposure_mode' = v
         /\ UNCHANGED <<resolution, framerate, fixed>>
    ELSE UNCHANGED <<camera, confvars>>

\* The forwarder of property p's Value: lambda x: self.set_<p>(x).
value_forwarder(p, v, ok) ==
    CASE p = "resolution" -> set_resolution(v, ok)
      [] p = "framerate" -> set_framerate(v, ok)
      [] p = "exposureMode" -> set_exposure_mode(v, ok)

\* Value.set(v), after the forwarder returned `result` (True or False): the
\* result is not looked at, notify_of_external_update(v) follows.
Value_set(p, v, result) ==
    /\ notify_of_external_update(p, v)
    /\ lastWrite' = <<p, v, result>>

\* The setter returns True (the handle took the value) or False (it raised
\* and the setter logged it); the lock is released; Value.set() goes on.
set_end ==
    /\ srv_pc = "set"
    /\ \E ok \in BOOLEAN :
          /\ value_forwarder(srv_req[1], srv_req[2], ok)
          /\ Value_set(srv_req[1], srv_req[2], ok)
    /\ release("serving")
    /\ srv_pc' = "idle"
    /\ srv_req' = <<>>
    /\ UNCHANGED <<camvars, sensorvars, writes, dlv, queuevars>>

\* ------------------------------------------------------------ specification
\* The steps of the camera thread (camera_loop) but for the division that
\* raises, wait_interval_raise.
camera_loop ==
    \/ get_still_image \/ capture_ok \/ capture_raise \/ except_image \/ add_image
    \/ get_resolution \/ get_resolution_ok \/ get_resolution_raise
    \/ except_resolution \/ add_resolution
    \/ get_framerate \/ get_framerate_ok \/ get_framerate_raise
    \/ except_framerate \/ add_framerate
    \/ get_exposure_mode \/ get_exposure_mode_ok \/ get_exposure_mode_raise
    \/ except_exposure_mode \/ add_exposure_mode
    \/ wait_interval

\* The steps of the sensor thread (sensor_loop).
sensor_loop ==
    \/ read_humidity_ok \/ read_humidity_raise
    \/ read_temperature_ok \/ read_temperature_raise
    \/ add_temperature \/ add_humidity \/ sensor_sleep

\* The whole program: both pollers, the IOLoop and remote writes.
Next ==
    \/ camera_loop \/ wait_interval_raise
    \/ sensor_loop
    \/ run_callback \/ set_begin \/ set_end

Spec == Init /\ [][Next]_vars

\* The program while the sensor thread sleeps (time.sleep of
\* sensors_update_interval): the camera thread, the IOLoop and remote writes.
NextCamera ==
    \/ camera_loop \/ wait_interval_raise
    \/ run_callback \/ set_begin \/ set_end

SpecCamera == Init /\ [][NextCamera]_vars

\* The same, with every thread running: the camera thread takes its steps
\* and is granted the lock when it is free again and again, the IOLoop runs
\* the queued callbacks, a setter's assignment returns.
FairCamera ==
    /\ SpecCamera
    /\ SF_vars(camera_loop \/ wait_interval_raise)
    /\ WF_vars(run_callback)
    /\ WF_vars(set_end)

\* The program while no remote client writes (self.framerate keeps its
\* configured value): both pollers and the IOLoop.
NextPollers ==
    \/ camera_loop
    \/ sensor_loop
    \/ run_callback

SpecPollers == Init /\ [][NextPollers]_vars

\* The same, with the IOLoop running: a callback that is queued is run.
FairPollers == SpecPollers /\ WF_vars(run_callback)

\* The keys of the metadata webthing_setup() gives the Property of p.
metadata(p) ==
    IF p \in {"resolution", "framerate", "exposureMode"}
    THEN {"type", "unit", "choices", "friendlyName", "description"}
    ELSE {"type", "unit", "friendlyName", "description"}

\* Values a remote client sends to the properties whose Value has no
\* forwarder.
RemoteValues(p) ==
    CASE p = "stillImage" -> {Str("remote")}
      [] p = "temperature" -> {<<"float", 1>>}
      [] p = "humidity" -> {<<"float", 1>>}

\* A remote write of v to a property whose Value was built without a
\* forwarder (Value(""), Value(0.0)): Property.set_value() refuses it if the
\* metadata marks the property readOnly; otherwise Value.set(v) has no
\* forwarder to call and goes on to notify_of_external_update(v).
set_value_without_forwarder ==
    /\ srv_pc = "idle"
    /\ writes < MaxWrites
    /\ \E p \in Props \ Writable : \E v \in RemoteValues(p) :
          IF "readOnly" \in metadata(p)
          THEN /\ lastWrite' = <<p, v, FALSE>>
               /\ UNCHANGED <<last_value, emitted>>
          ELSE /\ notify_of_external_update(p, v)
               /\ lastWrite' = <<p, v, TRUE>>
    /\ writes' = writes + 1
    /\ UNCHANGED <<camera, lockvars, confvars, camvars, sensorvars, srv_pc,
                   srv_req, dlv, queuevars>>

\* ------------------------------------------------------------ main thread
\* The main thread constructs the PiCameraWebThing (__init__), runs the IOLoop
\* (start(), where it is the serving thread above), and on KeyboardInterrupt
\* stops the server and runs cleanup().  srv_pc is its position throughout.

\* The state on entry to camera_setup()'s first `with` block: the handle and
\* the lock exist, nothing is configured, no camera thread runs.
InitStartup ==
    /\ resolution \in ConfResolutions
    /\ framerate \in ConfFramerates
    /\ exposure_mode \in ConfExposureModes
    /\ fixed \in ConfFixed
    /\ camera = [resolution |-> None, rotation |-> None, iso |-> None,
                 framerate |-> None, shutter_speed |-> None,
                 sensor_mode |-> None, exposure_mode |-> None,
                 preview |-> FALSE, closed |-> FALSE]
    /\ camera_lock = "free"
    /\ last_value = [p \in Props |->
                        CASE p = "resolution" -> resolution
                          [] p = "framerate" -> framerate
                          [] p = "exposureMode" -> exposure_mode
                          [] p = "stillImage" -> Str("")
                          [] OTHER -> <<"float", 0>>]
    /\ callbacks = <<>>
    /\ cam_pc = "not_started"
    /\ cam_local = None
    /\ sensor_pc = "read_humidity"
    /\ temperature = None
    /\ humidity = None
    /\ srv_pc = "camera_setup"
    /\ srv_req = <<>>
    /\ writes = 0
    /\ enq = [p \in Props |-> 0]
    /\ dlv = [p \in Props |-> 0]
    /\ emitted = 0
    /\ lastWrite = NoWrite
    /\ captured = 0

\* A step of the main thread that touches neither the handle nor the lock.
main_goto(at, to) ==
    /\ srv_pc = at
    /\ srv_pc' = to
    /\ UNCHANGED <<camera, lockvars, confvars, camvars, sensorvars, srv_req,
                   writes, lastWrite, valuevars, queuevars>>

\* A step of the main thread that enters a `with self.camera_lock:` block.
main_lock(at, to) ==
    /\ srv_pc = at
    /\ acquire("serving")
    /\ srv_pc' = to
    /\ UNCHANGED <<camera, confvars, camvars, sensorvars, srv_req, writes,
                   lastWrite, valuevars, queuevars>>

\* camera_setup(): the first `with self.camera_lock:`
camera_setup == main_lock("camera_setup", "configure")

\* The first block: the configured settings are assigned, the framerate is
\* set to 30.0, the preview is started.
configure ==
    /\ srv_pc = "configure"
    /\ camera' = [camera EXCEPT !.resolution = to_resolution(resolution),
                                !.rotation = fixed.rotation,
                                !.iso = fixed.iso,
                                !.framerate = to_fraction(WarmupFramerate),
                                !.shutter_speed = fixed.shutter_speed,
                                !.sensor_mode = fixed.sensor_mode,
                                !.exposure_mode = exposure_mode,
                                !.preview = TRUE]
    /\ release("serving")
    /\ srv_pc' = "warmup"
    /\ UNCHANGED <<confvars, camvars, sensorvars, srv_req, writes, lastWrite,
                   valuevars, queuevars>>

\* An assignment of camera_setup() raises: the `with` releases the lock, the
\* exception leaves __init__ and the module's main block, the process ends.
camera_setup_raise ==
    /\ srv_pc \in {"configure", "reset"}
    /\ release("serving")
    /\ srv_pc' = "exited"
    /\ UNCHANGED <<camera, confvars, camvars, sensorvars, srv_req, writes,
                   lastWrite, valuevars, queuevars>>

\* time.sleep(3), then the second `with self.camera_lock:`
warmup == main_lock("warmup", "reset")

\* A variant of reset_framerate that leaves the warm-up framerate in place.
reset_framerate_skipped ==
    /\ srv_pc = "reset"
    /\ release("serving")
    /\ srv_pc' = "thread_start"
    /\ UNCHANGED <<camera, confvars, camvars, sensorvars, srv_req, writes,
                   lastWrite, valuevars, queuevars>>

\* self.camera.framerate = self.framerate
reset_framerate ==
    /\ srv_pc = "reset"
    /\ camera' = [camera EXCEPT !.framerate = to_fraction(framerate)]
    /\ release("serving")
    /\ srv_pc' = "thread_start"
    /\ UNCHANGED <<confvars, camvars, sensorvars, srv_req, writes, lastWrite,
                   valuevars, queuevars>>

\* self.camera_thread.start(): camera_loop begins.
camera_thread_start ==
    /\ srv_pc = "thread_start"
    /\ srv_pc' = "webthing_setup"
    /\ cam_pc' = "get_still_image"
    /\ UNCHANGED <<camera, lockvars, confvars, cam_local, captured, sensorvars,
                   srv_req, writes, lastWrite, valuevars, queuevars>>

\* webthing_setup() builds the Thing and the server; start() runs the IOLoop.
start == main_goto("webthing_setup", "idle")

\* KeyboardInterrupt reaches the main thread while the IOLoop is idle or
\* while a setter is inside its `with` block (which releases the lock; the
\* setter's `except Exception` does not catch it).
KeyboardInterrupt ==
    /\ srv_pc \in {"idle", "set"}
    /\ IF srv_pc = "set" THEN release("serving") ELSE UNCHANGED lockvars
    /\ srv_pc' = "stop"
    /\ srv_req' = <<>>
    /\ UNCHANGED <<camera, confvars, camvars, sensorvars, writes, lastWrite,
                   valuevars, queuevars>>

\* stop(): self.server.stop(); then the `finally` clause calls cleanup().
stop == main_goto("stop", "stop_preview")

\* cleanup(): self.camera.stop_preview()
stop_preview ==
    /\ srv_pc = "stop_preview"
    /\ camera' = [camera EXCEPT !.preview = FALSE]
    /\ srv_pc' = "close"
    /\ UNCHANGED <<lockvars, confvars, camvars, sensorvars, srv_req, writes,
                   lastWrite, valuevars, queuevars>>

\* cleanup(): self.camera.close()
close ==
    /\ srv_pc = "close"
    /\ camera' = [camera EXCEPT !.closed = TRUE]
    /\ srv_pc' = "finalize"
    /\ UNCHANGED <<lockvars, confvars, camvars, sensorvars, srv_req, writes,
                   lastWrite, valuevars, queuevars>>

\* A call of cleanup() raises: the exception leaves the `finally` clause.
cleanup_raise ==
    /\ srv_pc \in {"stop_preview", "close"}
    /\ srv_pc' = "finalize"
    /\ UNCHANGED <<camera, lockvars, confvars, camvars, sensorvars, srv_req,
                   writes, lastWrite, valuevars, queuevars>>

\* The main thread ends; the interpreter exits and the daemon threads with it.
exit == main_goto("finalize", "exited")

\* The camera thread while the process lives; a closed handle returns no
\* frame.
camera_thread ==
    /\ srv_pc # "exited"
    /\ camera_loop \/ wait_interval_raise
    /\ camera.closed => cam_pc' # "add_image"

\* The IOLoop while start() runs it: callbacks and remote writes.
ioloop == run_callback \/ set_begin \/ set_end

\* The main thread before the IOLoop runs: __init__ and start().
startup ==
    \/ camera_setup \/ configure \/ camera_setup_raise \/ warmup
    \/ reset_framerate \/ camera_thread_start \/ start

\* The main thread after the IOLoop was interrupted.
shutdown ==
    \/ KeyboardInterrupt \/ stop \/ stop_preview \/ close \/ cleanup_raise
    \/ exit

\* The process from camera_setup() to its exit, the sensor thread left out.
NextLifecycle == startup \/ shutdown \/ camera_thread \/ ioloop

SpecLifecycle == InitStartup /\ [][NextLifecycle]_vars

\* The process from camera_setup() on while no KeyboardInterrupt arrives.
NextStartup == startup \/ camera_thread \/ ioloop

SpecStartup == InitStartup /\ [][NextStartup]_vars

\* The same as SpecCamera, with remote writes to every property.
NextRemote == NextCamera \/ set_value_without_forwarder

SpecRemote == Init /\ [][NextRemote]_vars

TypeOK ==
    /\ camera_lock \in {"free", "camera_thread", "serving"}
    /\ Handed \in 0..MaxCallbacks
    /\ writes \in 0..MaxWrites
    /\ emitted \in {0, 1}

\* ------------------------------------------------------------ claims
LockEntries == {"get_still_image", "get_resolution", "get_framerate",
                "get_exposure_mode"}

\* C1: at most one operation on the camera handle is in progress at any
\* time, whatever the interleaving of the camera thread's capture and
\* read-backs with the serving thread's setters.
C1_MutualExclusion == Cardinality(InCamera) <= 1

\* A setter is inside its `with` block while the camera thread waits to enter
\* one.
C1_Witness == srv_pc = "set" /\ cam_pc \in LockEntries /\ camera_lock = "serving"

\* C2: a remote write whose setter returns False leaves the property's stored
\* value as it was and emits no 'update'.
C2_FailedWriteChangesNothing ==
    [][(srv_pc = "set" /\ srv_pc' = "idle" /\ lastWrite'[3] = FALSE)
          => (last_value' = last_value /\ emitted' = 0)]_vars

\* C3: once a remote write of the resolution R has succeeded, and until the
\* next write, the resolution property reads R.
C3_ResolutionRoundTrip ==
    (lastWrite[1] = "resolution" /\ lastWrite[3] = TRUE)
        => last_value["resolution"] = lastWrite[2]

\* C4: with self.framerate at zero, computing the sleep interval does not
\* raise: the camera thread goes on to its next iteration.
C4_FramerateFloor ==
    [][(cam_pc = "wait_interval" /\ float(framerate) = 0)
          => cam_pc' \in {"wait_interval", "get_still_image"}]_vars

\* C5: in an iteration of sensor_loop in which one of the two bus
\* transactions failed, neither the temperature nor the humidity property is
\* handed an update.
C5_BothReadingsOrNone ==
    [][(sensor_pc \in {"add_temperature", "add_humidity"}
            /\ (temperature = None \/ humidity = None))
          => (enq'["temperature"] = enq["temperature"]
              /\ enq'["humidity"] = enq["humidity"])]_vars

\* C6: neither poller thread ever leaves its loop.
C6_PollersKeepRunning ==
    /\ cam_pc # "terminated"
    /\ sensor_pc # "terminated"

\* The camera thread leaves its loop only through the division at the end of
\* the body, never through a failed capture or a failed read of a setting.
OnlyTheDivisionTerminates ==
    [][(cam_pc # "terminated" /\ cam_pc' = "terminated")
          => (cam_pc = "wait_interval" /\ ZeroDivision)]_vars

\* C7: one image update is handed over per capture that returned and none
\* per capture that raised; a capture that raised is followed by the
\* read-backs of the same iteration; every image update that is delivered
\* changes the image property.
C7_OneImagePerCapture ==
    /\ [](captured = enq["stillImage"] + (IF cam_pc = "add_image" THEN 1 ELSE 0))
    /\ [][/\ (cam_pc = "capture" /\ cam_pc' # "capture")
                => \/ cam_pc' = "add_image" /\ captured' = captured + 1
                   \/ cam_pc' = "except_image" /\ UNCHANGED <<captured, queuevars>>
          /\ (cam_pc = "except_image" /\ cam_pc' # "except_image")
                => cam_pc' = "get_resolution" /\ UNCHANGED <<captured, queuevars>>
          /\ (dlv'["stillImage"] # dlv["stillImage"])
                => /\ emitted' = 1
                   /\ last_value'["stillImage"] = b64encode(Frame(dlv'["stillImage"]))
         ]_vars

\* A capture returned, its image was delivered, the next capture raised: the
\* image property holds the last good image.
C7_Witness ==
    /\ cam_pc = "except_image"
    /\ captured = 1
    /\ dlv["stillImage"] = 1
    /\ last_value["stillImage"] = b64encode(Frame(1))

\* C8: every notify_of_external_update call the IOLoop runs leaves the called
\* Value holding the value passed, leaves the other Values alone, and emits
\* one 'update' if the value differs from the one held before and none if it
\* is equal.
C8_SetInternal ==
    [][(dlv' # dlv) =>
          LET call == Head(callbacks) IN
          /\ last_value'[call.prop] = call.value
          /\ \A q \in Props \ {call.prop} : last_value'[q] = last_value[q]
          /\ emitted' = (IF call.value # last_value[call.prop] THEN 1 ELSE 0)
      ]_vars

\* An image update has changed the image property, and the last call, which
\* passed the value its Value held already, emitted nothing.
C8_Witness ==
    /\ dlv["stillImage"] = 1
    /\ last_value["stillImage"] = b64encode(Frame(1))
    /\ dlv["resolution"] = 1
    /\ callbacks = <<>>
    /\ enq["framerate"] = 0
    /\ emitted = 0

\* C9: the updates of one property are applied in the order they were handed
\* to add_callback: the IOLoop applies the k-th update of a property right
\* after its (k-1)-th, whatever it applies to other properties in between.
C9_PerPropertyOrder ==
    [][\A p \in Props : dlv'[p] = dlv[p] \/ dlv'[p] = dlv[p] + 1]_vars

\* Two updates of one property and an update of another property have been
\* applied.
C9_Witness ==
    \E p \in Props : \E q \in Props \ {p} : dlv[p] = 2 /\ dlv[q] = 1

\* The updates of property p that are queued, oldest first.
Pending(p) == SelectSeq(callbacks, LAMBDA it : it.prop = p)

\* C10: every update handed to add_callback is queued until it is run, once
\* (none is lost, none is run twice); a poller that reaches add_callback with
\* a value completes the call, whatever is queued and whatever the serving
\* thread is doing; and with the IOLoop running, every update handed over is
\* eventually run.
C10_NoDropNoBlock ==
    /\ [](\A p \in Props :
            /\ Len(Pending(p)) = enq[p] - dlv[p]
            /\ \A i \in 1..Len(Pending(p)) : Pending(p)[i].seq = dlv[p] + i)
    /\ [](Handed < MaxCallbacks =>
            /\ (cam_pc = "add_image" /\ cam_local # None) => ENABLED add_image
            /\ (cam_pc = "add_resolution" /\ cam_local # None) => ENABLED add_resolution
            /\ (cam_pc = "add_framerate" /\ cam_local # None) => ENABLED add_framerate
            /\ (cam_pc = "add_exposure_mode" /\ cam_local # None)
                  => ENABLED add_exposure_mode
            /\ (sensor_pc = "add_temperature" /\ temperature # None)
                  => ENABLED add_temperature
            /\ (sensor_pc = "add_humidity" /\ humidity # None) => ENABLED add_humidity)
    /\ \A p \in Props : \A k \in 1..MaxCallbacks :
            (enq[p] >= k) ~> (dlv[p] >= k)

\* Both pollers have handed over updates, and all of them have been run.
C10_Witness ==
    /\ Handed = MaxCallbacks
    /\ callbacks = <<>>
    /\ enq["stillImage"] >= 1
    /\ enq["humidity"] >= 1

\* The positions of the main thread inside camera_setup(), up to the start
\* of the camera thread.
InCameraSetup == {"camera_setup", "configure", "warmup", "reset", "thread_start"}

\* C11: from the end of the first configuration block to the reset the
\* handle's framerate is 30; until the reset is done the camera thread is not
\* started, nothing was captured and no remote write was begun; and once the
\* camera thread runs, and until the first remote write, the handle's
\* framerate is the configured one (so it is at the first capture and at the
\* first remote write).
C11_WarmupOrdering ==
    /\ srv_pc \in {"warmup", "reset"}
          => camera.framerate = to_fraction(WarmupFramerate)
    /\ srv_pc \in InCameraSetup
          => /\ cam_pc = "not_started"
             /\ captured = 0
             /\ writes = 0
             /\ InCamera = {}
    /\ (cam_pc # "not_started" /\ writes = 0)
          => camera.framerate = to_fraction(framerate)

\* The camera thread is in its first capture, before the server is started,
\* and the handle is back at the configured framerate.
C11_Witness ==
    /\ cam_pc = "capture"
    /\ captured = 0
    /\ srv_pc = "webthing_setup"
    /\ camera.framerate = to_fraction(framerate)
    /\ camera.framerate # to_fraction(WarmupFramerate)

\* C12: when cleanup() releases the handle the camera thread has left its
\* loop, and while cleanup() runs and after it the camera thread is in no
\* capture and no read of a setting.
C12_CooperativeShutdown ==
    /\ camera.closed => cam_pc = "terminated"
    /\ (srv_pc \in {"stop_preview", "close"} \/ camera.closed)
          => "camera_thread" \notin InCamera

\* C13: a remote write to the image, the temperature or the humidity property
\* is refused and leaves the value the property holds as it was.
C13_ReadOnly ==
    [][(writes' # writes /\ lastWrite'[1] \in Props \ Writable)
          => (lastWrite'[3] = FALSE /\ last_value' = last_value)]_vars

\* The threads about to execute, or executing, a statement on the handle:
\* the camera thread in a capture or a read-back, the main thread in a block
\* of camera_setup(), in a setter or in cleanup().
OnHandle ==
    InCamera
    \cup (IF srv_pc \in {"configure", "reset", "stop_preview", "close"}
          THEN {"serving"} ELSE {})

\* C14: a thread that executes a statement on the handle holds camera_lock,
\* in camera_setup(), in the camera thread's capture and read-backs, in the
\* setters and in cleanup().
C14_AllAccessUnderLock == \A t \in OnHandle : camera_lock = t

\* The cached config field and the handle's setting behind property p.
Cached(p) ==
    CASE p = "resolution" -> resolution
      [] p = "framerate" -> framerate
      [] p = "exposureMode" -> exposure_mode

Hardware(p) ==
    CASE p = "resolution" -> camera.resolution
      [] p = "framerate" -> camera.framerate
      [] p = "exposureMode" -> camera.exposure_mode

\* What the handle stores when it is assigned v as the setting behind p.
Stored(p, v) ==
    CASE p = "resolution" -> to_resolution(v)
      [] p = "framerate" -> to_fraction(v)
      [] p = "exposureMode" -> v

\* C15: a setter that returns True has assigned the value to the handle and
\* to its cached field, and to nothing else; a setter that returns False has
\* left the handle and every cached field as they were.
C15_SetterOutcome ==
    [][\A p \in Writable : \A v \in Choices(p) :
          (srv_pc = "set" /\ srv_req = <<p, v>> /\ srv_pc' = "idle") =>
              IF lastWrite'[3]
              THEN /\ Cached(p)' = v
                   /\ Hardware(p)' = Stored(p, v)
                   /\ \A q \in Writable \ {p} :
                         Cached(q)' = Cached(q) /\ Hardware(q)' = Hardware(q)
              ELSE camera' = camera /\ confvars' = confvars
      ]_vars

\* A write of the framerate "0.0" has failed: the setter returned False, the
\* handle and the cached field hold the configured framerate.
C15_Witness ==
    /\ lastWrite = <<"framerate", FloatStr(0), FALSE>>
    /\ framerate = Num(1)
    /\ camera.framerate = to_fraction(Num(1))
    /\ srv_pc = "idle"

\* What the camera thread's getter returns for the handle's current setting
\* behind property p.
ReadBack(p) ==
    CASE p = "resolution" -> format_resolution(camera.resolution)
      [] p = "framerate" -> format_framerate(camera.framerate)
      [] p = "exposureMode" -> camera.exposure_mode

\* The camera thread is in no `except` block: no access to the handle has
\* just raised.
NoFailure ==
    cam_pc \notin {"except_image", "except_resolution", "except_framerate",
                   "except_exposure_mode"}

\* C16: in a run in which no access to the handle raises once the remote
\* write is done, after a write of p that has succeeded (no other write
\* follows it) the property p eventually equals, and from then on keeps equal
\* to, the handle's setting as the getter reports it.  Runs that exhaust the
\* explored add_callback calls are left aside.
C16_Convergence ==
    \A p \in Writable :
        ([](lastWrite # NoWrite => NoFailure) /\ [](Handed < MaxCallbacks))
            => []((lastWrite[1] = p /\ lastWrite[3]) => <>[](last_value[p] = ReadBack(p)))

\* The value the camera thread, and the value the sensor thread, is about to
\* pass to add_callback, or None.
CameraInHand ==
    IF cam_pc \in {"add_image", "add_resolution", "add_framerate",
                   "add_exposure_mode"}
    THEN cam_local ELSE None

SensorInHand ==
    CASE sensor_pc = "add_temperature" -> temperature
      [] sensor_pc = "add_humidity" -> humidity
      [] OTHER -> None

\* The step appends a callback with value v to the IOLoop's queue.
Enqueues(v) ==
    /\ v # None
    /\ Len(callbacks') = Len(callbacks) + 1
    /\ callbacks'[Len(callbacks')].value = v
    /\ SubSeq(callbacks', 1, Len(callbacks)) = callbacks

\* C17: a step of the camera thread or of the sensor thread changes no
\* Value and emits nothing; a poller that leaves an add_callback call with a
\* value has appended it to the IOLoop's queue; and a Value changes only in
\* a step in which the serving thread takes the oldest callback off the
\* queue.
C17_PollersOnlyEnqueue ==
    [][/\ (cam_pc' # cam_pc)
              => /\ UNCHANGED <<last_value, emitted, dlv>>
                 /\ IF CameraInHand # None
                    THEN Enqueues(CameraInHand) ELSE UNCHANGED callbacks
       /\ (sensor_pc' # sensor_pc)
              => /\ UNCHANGED <<last_value, emitted, dlv>>
                 /\ IF SensorInHand # None
                    THEN Enqueues(SensorInHand) ELSE UNCHANGED callbacks
       /\ (last_value' # last_value)
              => /\ srv_pc = "idle"
                 /\ callbacks # <<>>
                 /\ callbacks' = Tail(callbacks)
                 /\ UNCHANGED <<cam_pc, sensor_pc>>
      ]_vars

\* The camera thread has handed over an image that is not applied yet, and
\* the IOLoop has applied the temperature the sensor thread handed over.
C17_Witness ==
    /\ enq["stillImage"] = 1
    /\ dlv["stillImage"] = 0
    /\ last_value["stillImage"] = Str("")
    /\ dlv["temperature"] = 1
    /\ last_value["temperature"] \in {TemperatureOf(raw) : raw \in RawReadings}

\* C18: camera_lock is held by a thread exactly while that thread is inside
\* an operation on the handle, and the step that ends an operation, by a
\* return or by an exception, leaves the lock free.
C18_LockReleasedOnEveryExit ==
    /\ [](/\ camera_lock = "camera_thread" <=> "camera_thread" \in InCamera
          /\ camera_lock = "serving" <=> "serving" \in InCamera)
    /\ [][/\ ("camera_thread" \in InCamera /\ cam_pc' # cam_pc)
                => camera_lock' = "free"
          /\ ("serving" \in InCamera /\ srv_pc' # srv_pc)
                => camera_lock' = "free"
         ]_vars

\* A read of the resolution has just raised, after a remote write that
\* failed: the lock is free.
C18_Witness ==
    /\ cam_pc = "except_resolution"
    /\ lastWrite[1] \in Writable
    /\ lastWrite[3] = FALSE
    /\ camera_lock = "free"

\* C19: the settings read from the configuration and never exposed keep
\* their values; a cached field of resolution, framerate or exposure mode
\* changes only in the step that ends a remote write of that property which
\* returned True, and to the value written; no step of the camera thread
\* changes any of them.
C19_ConfigFrame ==
    [][/\ fixed' = fixed
       /\ \A p \in Writable :
             Cached(p)' # Cached(p)
                => /\ srv_pc = "set"
                   /\ srv_pc' = "idle"
                   /\ lastWrite' = <<p, Cached(p)', TRUE>>
       /\ (cam_pc' # cam_pc) => UNCHANGED confvars
      ]_vars

\* A write of the resolution has succeeded and the framerate read back
\* ("1.0") was delivered: the cached resolution is the written one, the cached
\* framerate is still the configured number.
C19_Witness ==
    /\ lastWrite = <<"resolution", ResStr(640, 480), TRUE>>
    /\ resolution = ResStr(640, 480)
    /\ dlv["framerate"] = 1
    /\ last_value["framerate"] = FloatStr(1)
    /\ framerate = Num(1)
    /\ fixed \in ConfFixed

\* The lock itself blocks nobody for ever: it is not held across the sleep
\* or an add_callback call, a setter that has it returns, and the camera
\* thread waiting for it gets it.
LockBlocksNobody ==
    /\ [](cam_pc \in {"wait_interval", "add_image", "add_resolution",
                      "add_framerate", "add_exposure_mode"}
            => camera_lock # "camera_thread")
    /\ (srv_pc = "set") ~> (srv_pc = "idle" /\ camera_lock # "serving")
    /\ (cam_pc \in LockEntries) ~> ("camera_thread" \in InCamera)

\* C20: the lock is not held across the sleep or an add_callback call; with
\* the threads scheduled and the lock granted fairly, a remote write that has
\* the lock returns, and the camera thread that has finished an iteration
\* performs its next capture.
C20_NoLockDeadlock ==
    /\ [](cam_pc \in {"wait_interval", "add_image", "add_resolution",
                      "add_framerate", "add_exposure_mode"}
            => camera_lock = "free" \/ camera_lock = "serving")
    /\ (srv_pc = "set") ~> (srv_pc = "idle")
    /\ (cam_pc = "wait_interval") ~> (cam_pc = "capture")

=============================================================================
